---- MODULE Spec2Model ----
(***************************************************************************)
(* Resumable chunked upload server (server.py): the status / chunk /       *)
(* finish handlers and the filesystem helpers they use.                    *)
(*                                                                         *)
(* Strings are sequences of one-character strings.  A path is a sequence   *)
(* of segments below UPLOAD_ROOT (UPLOAD_ROOT itself is the empty path).   *)
(* The filesystem is a function from the paths of the regular files that   *)
(* exist to their content, a sequence of bytes.  Directories are implicit: *)
(* the targets enumerated below never use a file's path as a directory,    *)
(* so every mkdir(parents=True, exist_ok=True) succeeds and changes        *)
(* nothing a handler can observe.                                          *)
(***************************************************************************)
EXTENDS Integers, Sequences, FiniteSets, TLC

\* ------------------------------------------------------------------ strings

Letters == {"a", "b", "c", "g", "i", "m", "n", "o", "p", "r", "t"}

DigitChars == <<"0", "1", "2", "3", "4", "5", "6", "7", "8", "9">>

Whitespace == {" "}

\* s[a..b], empty when b < a
Slice(s, a, b) == IF b < a THEN <<>> ELSE SubSeq(s, a, b)

\* str.replace(old, new) for single characters
ReplaceChar(s, old, new) == [k \in 1..Len(s) |-> IF s[k] = old THEN new ELSE s[k]]

\* the characters of s that are in keep, in order
RECURSIVE FilterChars(_, _)
FilterChars(s, keep) ==
    IF s = <<>> THEN <<>>
    ELSE (IF Head(s) \in keep THEN <<Head(s)>> ELSE <<>>) \o FilterChars(Tail(s), keep)

\* str.lstrip(chars) / str.rstrip(chars) / str.strip(chars)
RECURSIVE LStripChars(_, _)
LStripChars(s, chars) ==
    IF s # <<>> /\ Head(s) \in chars THEN LStripChars(Tail(s), chars) ELSE s

RECURSIVE RStripChars(_, _)
RStripChars(s, chars) ==
    IF s # <<>> /\ s[Len(s)] \in chars
    THEN RStripChars(Slice(s, 1, Len(s) - 1), chars) ELSE s

StripChars(s, chars) == RStripChars(LStripChars(s, chars), chars)

\* str.split(sep): the pieces between separators, empty pieces kept
RECURSIVE SplitOn(_, _)
SplitOn(s, sep) ==
    IF \A k \in 1..Len(s) : s[k] # sep THEN <<s>>
    ELSE LET k == CHOOSE j \in 1..Len(s) :
                      s[j] = sep /\ \A h \in 1..(j - 1) : s[h] # sep
         IN  <<Slice(s, 1, k - 1)>> \o SplitOn(Slice(s, k + 1, Len(s)), sep)

\* sep.join(parts)
RECURSIVE Join(_, _)
Join(parts, sep) ==
    IF parts = <<>> THEN <<>>
    ELSE IF Len(parts) = 1 THEN parts[1]
    ELSE parts[1] \o sep \o Join(Tail(parts), sep)

\* the non-empty members of a sequence of strings
RECURSIVE NonEmpty(_)
NonEmpty(parts) ==
    IF parts = <<>> THEN <<>>
    ELSE (IF Head(parts) = <<>> THEN <<>> ELSE <<Head(parts)>>) \o NonEmpty(Tail(parts))

\* str(i) for i >= 0
RECURSIVE IntToStr(_)
IntToStr(i) ==
    IF i < 10 THEN <<DigitChars[i + 1]>>
    ELSE IntToStr(i \div 10) \o <<DigitChars[(i % 10) + 1]>>

\* ------------------------------------------------------------------ settings

\* UPLOAD_ROOT, the empty path: every path of the model is relative to it
UPLOAD_ROOT == <<>>

\* TMP_DIR = UPLOAD_ROOT / ".incoming"
TMP_DIR == UPLOAD_ROOT \o << <<".", "i", "n", "c", "o", "m", "i", "n", "g">> >>

PartSuffix == <<".", "p", "a", "r", "t">>

\* ------------------------------------------------------------------ helpers

MaxSegLen == 255

MaxDepth == 50

\* the characters SAFE_SEG allows, restricted to the model's alphabet
SafeSegChars ==
    Letters \cup {DigitChars[k] : k \in 1..10}
            \cup {" ", ".", "_", "-", "(", ")", "+", "=", "@", "#", ",", "&"}

SAFE_SEG(seg) ==
    /\ Len(seg) >= 1
    /\ Len(seg) <= MaxSegLen
    /\ \A k \in 1..Len(seg) : seg[k] \in SafeSegChars

\* werkzeug's secure_filename on a Windows host (os.sep "\\", os.path.altsep
\* "/"); the model's alphabet is ASCII, so the NFKD/ASCII step keeps every
\* character
FilenameAsciiChars == Letters \cup {DigitChars[k] : k \in 1..10} \cup {"_", ".", "-"}

WindowsDeviceFiles ==
    { <<"c", "o", "n">>, <<"p", "r", "n">> }
    \cup { <<"c", "o", "m", DigitChars[k]>> : k \in 2..10 }

secure_filename(name) ==
    LET seps     == ReplaceChar(ReplaceChar(name, "\\", " "), "/", " ")
        joined   == Join(NonEmpty(SplitOn(seps, " ")), <<"_">>)
        stripped == StripChars(FilterChars(joined, FilenameAsciiChars), {".", "_"})
    IN  IF stripped # <<>> /\ SplitOn(stripped, ".")[1] \in WindowsDeviceFiles
        THEN <<"_">> \o stripped
        ELSE stripped

_safe_name(name) ==
    LET s == secure_filename(name)
    IN  IF s = <<>> THEN <<"u", "p", "l", "o", "a", "d", ".", "b", "i", "n">> ELSE s

\* the loop of _safe_relpath over the raw segments, parts collected so far
RECURSIVE SafeParts(_, _)
SafeParts(raws, parts) ==
    IF raws = <<>> THEN parts
    ELSE LET seg == StripChars(Head(raws), Whitespace)
         IN  IF seg = <<>> \/ seg = <<".">> \/ seg = <<".", ".">>
             THEN SafeParts(Tail(raws), parts)
             ELSE LET kept  == IF SAFE_SEG(seg) THEN seg ELSE <<"_">>
                      parts2 == Append(parts, Slice(kept, 1, IF Len(kept) < MaxSegLen
                                                               THEN Len(kept) ELSE MaxSegLen))
                  IN  IF Len(parts2) >= MaxDepth THEN parts2
                      ELSE SafeParts(Tail(raws), parts2)

\* the raw segments of the relpath, nothing dropped or replaced
RawRelpath(rel) == SplitOn(ReplaceChar(rel, "\\", "/"), "/")

_safe_relpath(rel) == SafeParts(SplitOn(ReplaceChar(rel, "\\", "/"), "/"), <<>>)

\* a partial path that leaves out the file name: one ".part" per directory
TmpPathNoName(name, rel) == TMP_DIR \o _safe_relpath(rel) \o <<PartSuffix>>

_tmp_path(name, rel) == TMP_DIR \o _safe_relpath(rel) \o <<_safe_name(name) \o PartSuffix>>

_final_path(name, rel) == UPLOAD_ROOT \o _safe_relpath(rel) \o <<_safe_name(name)>>

\* pathlib: index of the last "." of a file name, 0 when there is none
LastDot(n) ==
    IF \E k \in 1..Len(n) : n[k] = "."
    THEN CHOOSE k \in 1..Len(n) : n[k] = "." /\ \A h \in (k + 1)..Len(n) : n[h] # "."
    ELSE 0

\* PurePath.suffix and PurePath.stem of a file name
PathSuffix(n) ==
    LET k == LastDot(n) IN IF 1 < k /\ k < Len(n) THEN Slice(n, k, Len(n)) ELSE <<>>

PathStem(n) ==
    LET k == LastDot(n) IN IF 1 < k /\ k < Len(n) THEN Slice(n, 1, k - 1) ELSE n

\* the candidate with the index appended after the whole name, f"{name} ({i})"
CandidateAfterName(p, i) ==
    Slice(p, 1, Len(p) - 1) \o <<p[Len(p)] \o <<" ", "(">> \o IntToStr(i) \o <<")">>>>

\* p.with_name(f"{stem} ({i}){suffix}"), the i-th candidate of _unique_path
Candidate(p, i) ==
    LET n == p[Len(p)]
    IN  Slice(p, 1, Len(p) - 1)
        \o <<PathStem(n) \o <<" ", "(">> \o IntToStr(i) \o <<")">> \o PathSuffix(n)>>


\* str.endswith(suf)
EndsWith(str, suf) ==
    Len(str) >= Len(suf) /\ Slice(str, Len(str) - Len(suf) + 1, Len(str)) = suf

\* os.walk below directory dir of filesystem f, as _count_files_excluding_tmp
\* consumes it: the files of dir that do not end in ".part", plus the walk of
\* every subdirectory of dir but the one named skip
RECURSIVE WalkCount(_, _, _)
RECURSIVE WalkDirs(_, _, _, _)
WalkDirs(f, dir, dirnames, skip) ==
    IF dirnames = {} THEN 0
    ELSE LET d == CHOOSE x \in dirnames : TRUE
         IN  WalkCount(f, dir \o <<d>>, skip) + WalkDirs(f, dir, dirnames \ {d}, skip)

WalkCount(f, dir, skip) ==
    LET below     == {p \in DOMAIN f : Len(p) > Len(dir) /\ Slice(p, 1, Len(dir)) = dir}
        filenames == {p[Len(p)] : p \in {q \in below : Len(q) = Len(dir) + 1}}
        dirnames  == {p[Len(dir) + 1] : p \in {q \in below : Len(q) > Len(dir) + 1}}
    IN  Cardinality({n \in filenames : ~EndsWith(n, PartSuffix)})
        + WalkDirs(f, dir, dirnames \ {skip}, skip)

\* a count that leaves out the staging root only
CountOutsideTmp(f, root, tmp_dir) ==
    Cardinality({p \in DOMAIN f :
                    Len(p) <= Len(tmp_dir) \/ Slice(p, 1, Len(tmp_dir)) # tmp_dir})

_count_files_excluding_tmp(f, root, tmp_dir) == WalkCount(f, root, tmp_dir[Len(tmp_dir)])

\* ------------------------------------------------------------------ state

Workers == {1, 2}

Attempts == 10

\* bytes one read of the request stream returns (8 MB in the source, scaled)
ReadSize == 1

VARIABLES
    fs,      \* the regular files under UPLOAD_ROOT: path -> content
    locked,  \* an external program (virus scanner, indexer) holds the files
    req,     \* per request slot: the handler's parameters, locals and position
    resp,    \* per request slot: the response of the handler that finished
    pre,     \* per request slot: the filesystem when the request arrived
    cl       \* the browser's uploadItem loop (client driver)

vars == <<fs, locked, req, resp, pre, cl>>

NoPath == <<>>

\* what a handle refers to once its file was unlinked or replaced
Orphan == << <<>> >>

EmptyFS == [p \in {} |-> <<>>]

Exists(f, p) == p \in DOMAIN f

WriteFile(f, p, content) == [q \in DOMAIN f \cup {p} |-> IF q = p THEN content ELSE f[q]]

RemoveFile(f, p) == [q \in DOMAIN f \ {p} |-> f[q]]

\* os.replace / os.rename when it succeeds: dst is replaced atomically
Rename(f, src, dst) ==
    [q \in (DOMAIN f \ {src}) \cup {dst} |-> IF q = dst THEN f[src] ELSE f[q]]

Idle ==
    [pc |-> "idle", op |-> "none", name |-> <<>>, rel |-> <<>>, size |-> 0,
     offset |-> 0, body |-> <<>>, cut |-> FALSE, tmp |-> NoPath, final |-> NoPath,
     current |-> 0, written |-> 0, fh |-> NoPath, i |-> 0, lastErr |-> "none",
     peers |-> "none", order |-> 0, faulted |-> FALSE]

Resp(status, received, complete, path, note) ==
    [status |-> status, received |-> received, complete |-> complete,
     path |-> path, note |-> note]

NoResp == Resp(0, -1, FALSE, NoPath, "")

Received(n) == Resp(200, n, FALSE, NoPath, "")

\* the answer for a final file without the completeness flag
CompleteUnflagged(n) == Resp(200, n, FALSE, NoPath, "")

Complete(n) == Resp(200, n, TRUE, NoPath, "")

Conflict(n) == Resp(409, n, FALSE, NoPath, "")

Abort(status, note) == Resp(status, -1, FALSE, NoPath, note)

Ok(path, note) == Resp(200, -1, FALSE, path, note)

Active(r) == r.pc \notin {"idle", "done"}

\* a handler that returned: its locals are gone, its parameters remain
Returned(r) ==
    [r EXCEPT !.pc = "done", !.body = <<>>, !.current = 0, !.written = 0,
              !.fh = NoPath, !.i = 0, !.lastErr = "none"]

\* the handler in slot w moves to another position, with new locals
Goto(w, r, pc) ==
    /\ req' = [req EXCEPT ![w] = [r EXCEPT !.pc = pc]]
    /\ UNCHANGED <<fs, resp>>

\* the handler in slot w returns a response
Reply(w, rsp) ==
    /\ req' = [req EXCEPT ![w] = Returned(@)]
    /\ resp' = [resp EXCEPT ![w] = rsp]
    /\ UNCHANGED fs

\* some other handler has path p open
OpenElsewhere(w, p) == \E v \in Workers \ {w} : req[v].fh = p

\* ------------------------------------------------------------------ /upload/status

\* one filesystem call of upload_status in slot w
\* the answer for a partial file that never reports more than the declared size
PartialAnswerCapped(f, r) ==
    IF r.size > 0 /\ Len(f[r.tmp]) > r.size THEN Received(r.size)
    ELSE Received(Len(f[r.tmp]))

\* upload_status found the partial file: its length is the received value
PartialAnswer(f, r) == Received(Len(f[r.tmp]))

StatusStep(w) ==
    LET r == req[w] IN
    /\ r.op = "status"
    /\ Active(r)
    /\ CASE r.pc = "s_tmp_exists" ->                     \* tmp.exists()
              IF Exists(fs, r.tmp) THEN Goto(w, r, "s_tmp_stat")
              ELSE Goto(w, r, "s_final_exists")
         [] r.pc = "s_tmp_stat" ->                       \* tmp.stat().st_size
              IF Exists(fs, r.tmp) THEN Reply(w, PartialAnswer(fs, r))
              ELSE Reply(w, Abort(500, "FileNotFoundError"))
         [] r.pc = "s_final_exists" ->                   \* final.exists()
              IF ~Exists(fs, r.final) THEN Reply(w, Received(0))
              ELSE IF r.size = 0 THEN Goto(w, r, "s_final_stat_ret")
              ELSE Goto(w, r, "s_final_stat")
         [] r.pc = "s_final_stat" ->                     \* final.stat().st_size == size
              IF ~Exists(fs, r.final) THEN Reply(w, Abort(500, "FileNotFoundError"))
              ELSE IF Len(fs[r.final]) = r.size THEN Reply(w, Complete(r.size))
              ELSE Goto(w, r, "s_final_stat_ret")
         [] r.pc = "s_final_stat_ret" ->                 \* the stat() of the return
              IF ~Exists(fs, r.final) THEN Reply(w, Abort(500, "FileNotFoundError"))
              ELSE IF r.size = 0 THEN Reply(w, Complete(Len(fs[r.final])))
              ELSE Reply(w, Received(Len(fs[r.final])))

\* ------------------------------------------------------------------ /upload/chunk

\* the offset check with "offset > current" in place of "offset != current"
OffsetCheckLoose(w, r, current) ==
    IF r.offset > current THEN Reply(w, Conflict(current))
    ELSE Goto(w, [r EXCEPT !.current = current], "k_open")

\* the offset check of upload_chunk once current is known
OffsetCheck(w, r, current) ==
    IF r.offset # current THEN Reply(w, Conflict(current))
    ELSE Goto(w, [r EXCEPT !.current = current], "k_open")

\* the response with "received >= size" in place of "received > size"
ChunkResultStrict(r) ==
    LET received == r.current + r.written
    IN  IF received >= r.size /\ r.size > 0
        THEN Abort(400, "received more bytes than declared size")
        ELSE Received(received)

\* the response with the bytes of this request alone, "received = written"
ChunkResultWritten(r) == Received(r.written)

\* the response of upload_chunk after the read-and-write loop
ChunkResult(r) ==
    LET received == r.current + r.written
    IN  IF received > r.size /\ r.size > 0
        THEN Abort(400, "received more bytes than declared size")
        ELSE Received(received)

\* open(tmp, "wb") in place of "ab": the file is truncated
OpenTruncate(f, p) == WriteFile(f, p, <<>>)

\* open(tmp, "ab"): the file is created empty when missing, kept otherwise
OpenAppend(f, p) == IF Exists(f, p) THEN f ELSE WriteFile(f, p, <<>>)

\* one filesystem call of upload_chunk in slot w
ChunkStep(w) ==
    LET r == req[w] IN
    /\ r.op = "chunk"
    /\ Active(r)
    /\ CASE r.pc = "k_exists" ->                         \* tmp.exists()
              IF Exists(fs, r.tmp) THEN Goto(w, r, "k_stat")
              ELSE OffsetCheck(w, r, 0)
         [] r.pc = "k_stat" ->                           \* tmp.stat().st_size
              IF Exists(fs, r.tmp) THEN OffsetCheck(w, r, Len(fs[r.tmp]))
              ELSE Reply(w, Abort(500, "FileNotFoundError"))
         [] r.pc = "k_open" ->                           \* open(tmp, "ab")
              /\ fs' = OpenAppend(fs, r.tmp)
              /\ req' = [req EXCEPT ![w] = [r EXCEPT !.pc = "k_write", !.fh = r.tmp]]
              /\ UNCHANGED resp
         [] r.pc = "k_write" ->                          \* request.stream.read(); out.write()
              IF r.body = <<>> THEN Reply(w, ChunkResult(r))
              ELSE LET n    == IF Len(r.body) < ReadSize THEN Len(r.body) ELSE ReadSize
                       data == Slice(r.body, 1, n)
                   IN  /\ fs' = IF Exists(fs, r.fh)
                                THEN WriteFile(fs, r.fh, fs[r.fh] \o data)
                                ELSE fs
                       /\ req' = [req EXCEPT ![w] =
                                    [r EXCEPT !.body = Slice(r.body, n + 1, Len(r.body)),
                                              !.written = r.written + n]]
                       /\ UNCHANGED resp

\* the client's connection drops while upload_chunk reads the body: the stream
\* ends early and the client never sees the response
Disconnect(w) ==
    /\ req[w].op = "chunk"
    /\ req[w].pc = "k_write"
    /\ ~req[w].cut
    /\ req' = [req EXCEPT ![w].body = <<>>, ![w].cut = TRUE]
    /\ UNCHANGED <<fs, resp>>

\* ------------------------------------------------------------------ /upload/finish

\* slot w's handler becomes r2 while the file at src moves to dst (or is
\* unlinked, dst = Orphan): open handles follow their file, and a handle on a
\* replaced dst keeps the old, now nameless file
MoveHandles(w, r2, src, dst) ==
    [v \in Workers |->
        IF v = w THEN r2
        ELSE [req[v] EXCEPT !.fh = IF @ = src THEN dst
                                   ELSE IF @ = dst THEN Orphan ELSE @]]

\* a rename or unlink of slot w can fail with PermissionError: an external
\* program holds the file, or (Windows) another handler has it open
CanFail(w, r) == locked \/ OpenElsewhere(w, r.tmp) \/ OpenElsewhere(w, r.final)

CanSucceed == ~locked

\* _atomic_move_with_retry returns: upload_finish answers with the plain success
Moved(w, r, f2, dst) ==
    /\ fs' = f2
    /\ req' = MoveHandles(w, Returned(r), r.tmp, dst)
    /\ resp' = [resp EXCEPT ![w] = Ok(r.final, "")]

\* a retry loop that gives up after the first failed attempt
AttemptFailedOnce(w, r, err) ==
    Goto(w, [r EXCEPT !.lastErr = err, !.i = r.i + 1,
                      !.faulted = @ \/ err = "PermissionError"],
         "m_rename")

\* attempt i of the os.replace loop failed with err
AttemptFailed(w, r, err) ==
    Goto(w, [r EXCEPT !.lastErr = err, !.i = r.i + 1,
                      !.faulted = @ \/ err = "PermissionError"],
         IF r.i + 1 >= Attempts THEN "m_rename" ELSE "m_replace")

\* shutil.move failed: _atomic_move_with_retry raises last_err, and
\* upload_finish catches it by its type
Raise(w, r, perm) ==
    Goto(w, [r EXCEPT !.faulted = @ \/ perm],
         IF r.lastErr = "FileNotFoundError" THEN "x_final_exists" ELSE "y_final_exists")

\* a finish that answers ok for a missing upload by creating an empty final file
NoPartialCreates(w, r) ==
    /\ fs' = IF Exists(fs, r.final) THEN fs ELSE WriteFile(fs, r.final, <<>>)
    /\ req' = [req EXCEPT ![w] = Returned(@)]
    /\ resp' = [resp EXCEPT ![w] = Ok(r.final, "already finalized")]

\* upload_finish found no partial file: ok if the final file is there, else 404
NoPartial(w, r) ==
    IF Exists(fs, r.final) THEN Reply(w, Ok(r.final, "already finalized"))
    ELSE Reply(w, Abort(404, "no partial upload found"))

\* one filesystem call of upload_finish (and of the helpers it calls) in slot w
FinishStep(w) ==
    LET r == req[w] IN
    /\ r.op = "finish"
    /\ Active(r)
    /\ CASE r.pc = "f_final_exists" ->                   \* final_pref.exists()
              IF Exists(fs, r.final) THEN Goto(w, r, "f_tmp_exists")
              ELSE Goto(w, r, "f_tmp_exists2")
         [] r.pc = "f_tmp_exists" ->                     \* not tmp.exists()
              IF Exists(fs, r.tmp) THEN Goto(w, r, "u_exists")
              ELSE IF r.size = 0 THEN Reply(w, Ok(r.final, "already finalized"))
              ELSE Goto(w, r, "f_final_stat")
         [] r.pc = "f_final_stat" ->                     \* final_pref.stat().st_size == size
              IF ~Exists(fs, r.final) THEN Reply(w, Abort(500, "FileNotFoundError"))
              ELSE IF Len(fs[r.final]) = r.size
                   THEN Reply(w, Ok(r.final, "already finalized"))
              ELSE Goto(w, r, "f_tmp_exists2")
         [] r.pc = "u_exists" ->                         \* _unique_path: p.exists()
              IF ~Exists(fs, r.final) THEN Goto(w, r, "f_tmp_exists2")
              ELSE Goto(w, [r EXCEPT !.i = 1], "u_cand")
         [] r.pc = "u_cand" ->                           \* _unique_path: cand.exists()
              IF ~Exists(fs, Candidate(r.final, r.i))
              THEN Goto(w, [r EXCEPT !.final = Candidate(r.final, r.i), !.i = 0],
                        "f_tmp_exists2")
              ELSE Goto(w, [r EXCEPT !.i = r.i + 1], "u_cand")
         [] r.pc = "f_tmp_exists2" ->                    \* not tmp.exists()
              IF Exists(fs, r.tmp) THEN Goto(w, r, "m_replace")
              ELSE Goto(w, r, "f_final_exists2")
         [] r.pc = "f_final_exists2" -> NoPartial(w, r)  \* final_pref.exists()
         [] r.pc = "m_replace" ->                        \* os.replace(src, dst)
              IF ~Exists(fs, r.tmp) THEN AttemptFailed(w, r, "FileNotFoundError")
              ELSE \/ CanFail(w, r) /\ AttemptFailed(w, r, "PermissionError")
                   \/ CanSucceed /\ Moved(w, r, Rename(fs, r.tmp, r.final), r.final)
         [] r.pc = "m_rename" ->                         \* shutil.move: os.rename(src, dst)
              IF ~Exists(fs, r.tmp) THEN Goto(w, r, "m_copy")
              ELSE \/ (CanFail(w, r) \/ Exists(fs, r.final))
                      /\ Goto(w, [r EXCEPT !.faulted = @ \/ CanFail(w, r)], "m_copy")
                   \/ CanSucceed /\ Moved(w, r, Rename(fs, r.tmp, r.final), r.final)
         [] r.pc = "m_copy" ->                           \* shutil.move: copy2(src, dst)
              IF ~Exists(fs, r.tmp) THEN Raise(w, r, FALSE)
              ELSE \/ locked /\ Raise(w, r, TRUE)              \* the holder denies reading
                   \/ /\ fs' = WriteFile(fs, r.final, fs[r.tmp])
                      /\ req' = [req EXCEPT ![w].pc = "m_unlink"]
                      /\ UNCHANGED resp
         [] r.pc = "m_unlink" ->                         \* shutil.move: os.unlink(src)
              IF ~Exists(fs, r.tmp) THEN Raise(w, r, FALSE)
              ELSE \/ CanFail(w, r) /\ Raise(w, r, TRUE)
                   \/ CanSucceed /\ Moved(w, r, RemoveFile(fs, r.tmp), Orphan)
         [] r.pc = "x_final_exists" ->                   \* except FileNotFoundError
              IF Exists(fs, r.final) THEN Reply(w, Ok(r.final, "finalized concurrently"))
              ELSE Reply(w, Abort(404, "partial vanished during finalize"))
         [] r.pc = "y_final_exists" ->                   \* except Exception
              IF ~Exists(fs, r.final) THEN Reply(w, Abort(500, "finalize failed"))
              ELSE IF r.size = 0 THEN Goto(w, r, "y_unlink")
              ELSE Goto(w, r, "y_final_stat")
         [] r.pc = "y_final_stat" ->                     \* final_pref.stat().st_size == size
              IF Exists(fs, r.final) /\ Len(fs[r.final]) = r.size
              THEN Goto(w, r, "y_unlink")
              ELSE Reply(w, Abort(500, "finalize failed"))
         [] r.pc = "y_unlink" ->                         \* tmp.unlink(), errors ignored
              \/ /\ Exists(fs, r.tmp) /\ CanSucceed
                 /\ fs' = RemoveFile(fs, r.tmp)
                 /\ req' = MoveHandles(w, Returned(r), r.tmp, Orphan)
                 /\ resp' = [resp EXCEPT ![w] = Ok(r.final, "final existed after error")]
              \/ /\ ~Exists(fs, r.tmp) \/ CanFail(w, r)
                 /\ Reply(w, Ok(r.final, "final existed after error"))

\* ------------------------------------------------------------------ requests

NameA == <<"a", ".", "t">>

NameB == <<"b">>

\* ".incoming", the name of the staging directory, sent as a relative path
RelIncoming == <<".", "i", "n", "c", "o", "m", "i", "n", "g">>

\* upload targets as <<name, relpath>>
TargetA == <<NameA, <<>>>>

TargetB == <<NameB, <<>>>>

\* the target whose preferred final path is TargetA's partial path
TargetP == <<NameA \o PartSuffix, RelIncoming>>

NoName == << <<>>, <<>> >>

\* a file whose own name ends in ".part", uploaded to the root
TargetQ == <<NameA \o PartSuffix, <<>>>>

\* a file uploaded to a directory named like the staging directory, below "b"
TargetN == <<NameA, <<"b", "/">> \o RelIncoming>>

AllTargets == {TargetA, TargetB, TargetP, TargetQ, TargetN, NoName}

\* _tmp_path and _final_path of the targets above, computed once
TmpOf == [t \in AllTargets |-> _tmp_path(t[1], t[2])]

FinalOf == [t \in AllTargets |-> _final_path(t[1], t[2])]

\* two finish calls for the same target
Twin(a, b) ==
    /\ a.op = "finish" /\ b.op = "finish"
    /\ a.name = b.name /\ a.rel = b.rel /\ a.size = b.size

\* the parameters a handler reads, and the paths it derives, before its first
\* filesystem call
Request(op, t, size, offset, body) ==
    [Idle EXCEPT !.op = op, !.name = t[1], !.rel = t[2], !.size = size,
                 !.offset = offset, !.body = body,
                 !.tmp = TmpOf[t], !.final = FinalOf[t]]

\* the parameter check without the tests on size and offset
InvalidName(r) == r.name = <<>>

\* abort(400, ...) of the three handlers
Invalid(r) ==
    \/ r.name = <<>>
    \/ r.op \in {"status", "chunk"} /\ r.size < 0
    \/ r.op = "chunk" /\ r.offset < 0

FirstPc(op) ==
    CASE op = "status" -> "s_tmp_exists"
      [] op = "chunk"  -> "k_exists"
      [] op = "finish" -> "f_final_exists"

\* a request arrives in the free slot w
Start(w, r0) ==
    LET others == {v \in Workers \ {w} : Active(req[v])}
        mine   == IF others = {} THEN "none"
                  ELSE IF \A v \in others : Twin(req[v], r0) THEN "twin" ELSE "other"
        r1     == [r0 EXCEPT !.peers = mine,
                             !.order = IF others = {} THEN 1 ELSE 2,
                             !.pc = IF Invalid(r0) THEN "done" ELSE FirstPc(r0.op)]
    IN  /\ req[w].pc = "idle"
        /\ req' = [v \in Workers |->
                     IF v = w THEN r1
                     ELSE IF v \in others
                          THEN [req[v] EXCEPT !.peers =
                                  IF Twin(req[v], r0) /\ @ # "other" THEN "twin" ELSE "other"]
                     ELSE req[v]]
        /\ resp' = [resp EXCEPT ![w] =
                      IF Invalid(r0) THEN Abort(400, "required") ELSE NoResp]
        /\ UNCHANGED fs

\* current length of a target's partial file, 0 if it does not exist
PartialLen(f, t) == IF Exists(f, TmpOf[t]) THEN Len(f[TmpOf[t]]) ELSE 0

\* the response in slot w has been delivered; the slot is free again
Release(w) ==
    /\ req[w].pc = "done"
    /\ req' = [req EXCEPT ![w] = Idle]
    /\ resp' = [resp EXCEPT ![w] = NoResp]
    /\ pre' = [pre EXCEPT ![w] = EmptyFS]
    /\ UNCHANGED fs

\* ------------------------------------------------------------------ drivers

\* declared size of the uploads
MaxSize == 2

\* bound on the length a partial file may have when a chunk request arrives
MaxFileLen == 2

\* bound on the number of files on disk when a finish request arrives
MaxFiles == 1

\* the bytes of a client's file from position offset on, n of them: byte k of
\* a file is k, so a file's content shows the offsets it was written at
Data(offset, n) == [k \in 1..n |-> offset + k]

\* files some other program left at a final name, of one byte and of MaxSize bytes
Occupant == <<9>>

OccupantFull == [k \in 1..MaxSize |-> 9]

\* an external program opens the files without sharing delete access
Lock ==
    /\ ~locked
    /\ locked' = TRUE
    /\ UNCHANGED <<fs, req, resp, pre, cl>>

Unlock ==
    /\ locked
    /\ locked' = FALSE
    /\ UNCHANGED <<fs, req, resp, pre, cl>>

NoClient == [pc |-> "off", offset |-> 0, cuts |-> 0]

\* the state after start-up, on the files an earlier run left on disk
Boot(files, client) ==
    /\ fs \in files
    /\ locked = FALSE
    /\ req = [w \in Workers |-> Idle]
    /\ resp = [w \in Workers |-> NoResp]
    /\ pre = [w \in Workers |-> EmptyFS]
    /\ cl = client

Status(w) == StatusStep(w) /\ UNCHANGED <<locked, pre, cl>>

Chunk(w) == ChunkStep(w) /\ UNCHANGED <<locked, pre, cl>>

Finish(w) == FinishStep(w) /\ UNCHANGED <<locked, pre, cl>>

Drop(w) == Disconnect(w) /\ UNCHANGED <<locked, pre, cl>>

Done(w) == Release(w) /\ UNCHANGED <<locked, cl>>

\* ------------------------------------------------------------------ Spec: concurrent requests
\* Two request slots serve status, chunk and finish requests for one target in
\* any interleaving of their filesystem calls; no external program interferes.

Init == Boot({EmptyFS}, NoClient)

ReqStatus(w) ==
    /\ Start(w, Request("status", TargetA, MaxSize, 0, <<>>))
    /\ UNCHANGED <<locked, pre, cl>>

ReqChunk(w) ==
    /\ PartialLen(fs, TargetA) + 1 <= MaxFileLen
    /\ \E offset \in 0..(MaxFileLen - 1) :
          Start(w, Request("chunk", TargetA, MaxSize, offset, Data(offset, 1)))
    /\ UNCHANGED <<locked, pre, cl>>

ReqFinish(w) ==
    /\ Cardinality(DOMAIN fs) <= MaxFiles
    /\ Start(w, Request("finish", TargetA, MaxSize, 0, <<>>))
    /\ UNCHANGED <<locked, pre, cl>>

Next ==
    \E w \in Workers :
        \/ ReqStatus(w)
        \/ ReqChunk(w)
        \/ ReqFinish(w)
        \/ Status(w)
        \/ Chunk(w)
        \/ Finish(w)
        \/ Drop(w)
        \/ Done(w)

Spec == Init /\ [][Next]_vars

\* ------------------------------------------------------------------ FinSpec: finalize
\* Each of the two request slots serves one finish call for the same target,
\* one after the other or concurrently in any interleaving of their filesystem
\* checks and rename attempts, on the files an earlier run left on disk, while
\* an external program may take and drop a lock on the files at any moment.

FinFiles ==
    LET partials == { EmptyFS } \cup
                    { WriteFile(EmptyFS, TmpOf[TargetA], Data(0, n)) : n \in {1, MaxSize} }
        occupied == { WriteFile(f, FinalOf[TargetA], o) :
                         f \in partials, o \in {Occupant, OccupantFull} }
    IN  partials \cup occupied \cup
        { WriteFile(f, Candidate(FinalOf[TargetA], 1), Occupant) : f \in occupied }

FinInit == Boot(FinFiles, NoClient)

FinReq(w) ==
    /\ resp[w] = NoResp
    /\ \E size \in {0, MaxSize} :
          /\ \A v \in Workers : req[v].pc # "idle" => req[v].size = size
          /\ Start(w, Request("finish", TargetA, size, 0, <<>>))
    /\ pre' = [pre EXCEPT ![w] = fs]
    /\ UNCHANGED <<locked, cl>>

FinNext ==
    \/ \E w \in Workers : FinReq(w) \/ Finish(w)
    \/ Lock
    \/ Unlock

FinSpec == FinInit /\ [][FinNext]_vars

\* FinSpec with each handler thread scheduled again and again: a handler that
\* can take its next step eventually takes it (the sleeps of the retry loop
\* are finite)
FinLiveSpec == FinInit /\ [][FinNext]_vars /\ \A w \in Workers : WF_vars(Finish(w))

\* ------------------------------------------------------------------ SeqSpec: one request at a time
\* One request slot serves status, chunk and finish requests one after the
\* other; no external program interferes.

\* bound on the body of one chunk request
MaxBody == 2

\* bound on the number of files on disk when a finish request arrives
SeqMaxFiles == 2

\* the declared sizes, offsets and body lengths the clients of a target send:
\* every combination for TargetA, whole files of MaxSize bytes for TargetP
SeqSizes(t) == IF t = TargetA THEN 0..MaxSize ELSE {MaxSize}

SeqOffsets(t) == IF t = TargetA THEN 0..MaxFileLen ELSE {0}

SeqLens(t) == IF t = TargetA THEN 0..MaxBody ELSE {MaxSize}

SeqTargets == {TargetA, TargetP, NoName}

SeqInit == Boot({EmptyFS, WriteFile(EmptyFS, FinalOf[TargetA], Occupant)}, NoClient)

SeqReqStatus ==
    /\ \E t \in SeqTargets : \E size \in SeqSizes(t) :
          Start(1, Request("status", t, size, 0, <<>>))
    /\ pre' = [pre EXCEPT ![1] = fs]
    /\ UNCHANGED <<locked, cl>>

SeqReqChunk ==
    /\ \E t \in SeqTargets :
       \E size \in SeqSizes(t), offset \in SeqOffsets(t), n \in SeqLens(t) :
          /\ PartialLen(fs, t) + n <= MaxFileLen
          /\ Start(1, Request("chunk", t, size, offset, Data(offset, n)))
    /\ pre' = [pre EXCEPT ![1] = fs]
    /\ UNCHANGED <<locked, cl>>

SeqReqFinish ==
    /\ Cardinality(DOMAIN fs) <= SeqMaxFiles
    /\ \E t \in SeqTargets : \E size \in SeqSizes(t) :
          Start(1, Request("finish", t, size, 0, <<>>))
    /\ pre' = [pre EXCEPT ![1] = fs]
    /\ UNCHANGED <<locked, cl>>

SeqNext ==
    \/ SeqReqStatus
    \/ SeqReqChunk
    \/ SeqReqFinish
    \/ Status(1)
    \/ Chunk(1)
    \/ Finish(1)
    \/ Drop(1)
    \/ Done(1)

SeqSpec == SeqInit /\ [][SeqNext]_vars

\* ------------------------------------------------------------------ PairSpec: two targets
\* Slot 1 serves requests for TargetA with declared size MaxSize; slot 2
\* serves, concurrently, requests for a target that differs from it in the
\* file name (TargetB) or only in the declared size.

PairTargets(w) ==
    IF w = 1 THEN { <<TargetA, MaxSize>> }
    ELSE { <<TargetB, MaxSize>>, <<TargetA, MaxSize - 1>> }

PairInit == Boot({EmptyFS}, NoClient)

PairReqStatus(w) ==
    /\ \E t \in PairTargets(w) : Start(w, Request("status", t[1], t[2], 0, <<>>))
    /\ UNCHANGED <<locked, pre, cl>>

PairReqChunk(w) ==
    /\ \E t \in PairTargets(w) :
          /\ PartialLen(fs, t[1]) = 0
          /\ Start(w, Request("chunk", t[1], t[2], 0, Data(0, 1)))
    /\ UNCHANGED <<locked, pre, cl>>

PairReqFinish(w) ==
    /\ Cardinality(DOMAIN fs) <= MaxFiles
    /\ \E t \in PairTargets(w) : Start(w, Request("finish", t[1], t[2], 0, <<>>))
    /\ UNCHANGED <<locked, pre, cl>>

PairNext ==
    \E w \in Workers :
        \/ PairReqStatus(w)
        \/ PairReqChunk(w)
        \/ PairReqFinish(w)
        \/ Status(w)
        \/ Chunk(w)
        \/ Finish(w)
        \/ Done(w)

PairSpec == PairInit /\ [][PairNext]_vars

\* ------------------------------------------------------------------ ClientSpec: uploadItem
\* The browser's uploadItem loop uploads one file through slot 1: it asks for
\* the resume offset, sends chunks from there and calls finish.  A chunk
\* request may lose its connection; the user then starts uploadItem again.

\* size of the client's file
ClientSize == 4

\* chunkSize of uploadItem (16 MB in the source, scaled)
ClientChunk == 2

\* bound on the number of connections lost during one upload
MaxCuts == 2

ClientFile == Data(0, ClientSize)

ClientInit == Boot({EmptyFS}, [NoClient EXCEPT !.pc = "start"])

\* Math.min(offset + chunkSize, size)
SliceEnd(offset) ==
    IF offset + ClientChunk < ClientSize THEN offset + ClientChunk ELSE ClientSize

\* getReceived: fetch /upload/status
ClStatus ==
    /\ cl.pc = "start"
    /\ Start(1, Request("status", TargetA, ClientSize, 0, <<>>))
    /\ cl' = [cl EXCEPT !.pc = "status"]
    /\ UNCHANGED <<locked, pre>>

\* getReceived returns j.received || 0, or throws when the status is not ok
ClGotStatus ==
    /\ cl.pc = "status"
    /\ Release(1)
    /\ cl' = IF resp[1].status # 200 THEN [cl EXCEPT !.pc = "failed"]
             ELSE [cl EXCEPT !.pc = "loop",
                             !.offset = IF resp[1].received > 0 THEN resp[1].received ELSE 0]
    /\ UNCHANGED locked

\* while (offset < size): fetch /upload/chunk with file.slice(offset, ...)
ClChunk ==
    /\ cl.pc = "loop"
    /\ cl.offset < ClientSize
    /\ Start(1, Request("chunk", TargetA, ClientSize, cl.offset,
                         Slice(ClientFile, cl.offset + 1, SliceEnd(cl.offset))))
    /\ cl' = [cl EXCEPT !.pc = "chunk"]
    /\ UNCHANGED <<locked, pre>>

\* the answer to a chunk: a lost connection ends uploadItem and the user starts
\* it again; 409 realigns the offset; any other error ends uploadItem
ClGotChunk ==
    /\ cl.pc = "chunk"
    /\ Release(1)
    /\ cl' = IF req[1].cut
             THEN [cl EXCEPT !.pc = "start", !.offset = 0, !.cuts = cl.cuts + 1]
             ELSE IF resp[1].status = 409
             THEN [cl EXCEPT !.pc = "loop",
                             !.offset = IF resp[1].received > 0 THEN resp[1].received ELSE 0]
             ELSE IF resp[1].status # 200 THEN [cl EXCEPT !.pc = "failed"]
             ELSE [cl EXCEPT !.pc = "loop",
                             !.offset = IF resp[1].received > 0 THEN resp[1].received
                                        ELSE SliceEnd(cl.offset)]
    /\ UNCHANGED locked

\* after the loop: fetch /upload/finish
ClFinish ==
    /\ cl.pc = "loop"
    /\ cl.offset >= ClientSize
    /\ Start(1, Request("finish", TargetA, ClientSize, 0, <<>>))
    /\ cl' = [cl EXCEPT !.pc = "finish"]
    /\ UNCHANGED <<locked, pre>>

\* the answer to finish; the response stays in the slot
ClGotFinish ==
    /\ cl.pc = "finish"
    /\ req[1].pc = "done"
    /\ cl' = [cl EXCEPT !.pc = IF resp[1].status = 200 THEN "done" ELSE "failed"]
    /\ UNCHANGED <<fs, locked, req, resp, pre>>

ClDrop ==
    /\ cl.cuts < MaxCuts
    /\ Disconnect(1)
    /\ UNCHANGED <<locked, pre, cl>>

ClientNext ==
    \/ ClStatus
    \/ ClGotStatus
    \/ ClChunk
    \/ ClGotChunk
    \/ ClFinish
    \/ ClGotFinish
    \/ ClDrop
    \/ Status(1)
    \/ Chunk(1)
    \/ Finish(1)

ClientSpec == ClientInit /\ [][ClientNext]_vars

\* ------------------------------------------------------------------ ResumeSpec: status, then chunk
\* Slot 1 serves one request at a time.  A client asks /upload/status for a
\* target and sends its next chunk at the received value of the answer, as
\* uploadItem does with getReceived; between two such rounds any chunk and
\* finish requests for TargetA change the files on disk.

\* cl.pc: "off" no round under way, "status" status sent, "resume" status
\* answered (cl.offset is its received value), "chunk" the chunk is sent
ResumeClient == [pc |-> "off", offset |-> 0, cuts |-> 0, target |-> TargetA]

ResumeTargets == {TargetA, TargetP}

ResumeInit ==
    Boot({EmptyFS, WriteFile(EmptyFS, FinalOf[TargetA], Occupant)}, ResumeClient)

ResumeReqChunk ==
    /\ cl.pc = "off"
    /\ \E size \in 0..MaxSize, offset \in 0..MaxFileLen, n \in 1..MaxBody :
          /\ PartialLen(fs, TargetA) + n <= MaxFileLen
          /\ Start(1, Request("chunk", TargetA, size, offset, Data(offset, n)))
    /\ pre' = [pre EXCEPT ![1] = fs]
    /\ UNCHANGED <<locked, cl>>

ResumeReqFinish ==
    /\ cl.pc = "off"
    /\ Cardinality(DOMAIN fs) <= SeqMaxFiles
    /\ \E size \in 0..MaxSize :
          Start(1, Request("finish", TargetA, size, 0, <<>>))
    /\ pre' = [pre EXCEPT ![1] = fs]
    /\ UNCHANGED <<locked, cl>>

\* getReceived: fetch /upload/status
ResumeStatus ==
    /\ cl.pc = "off"
    /\ \E t \in ResumeTargets, size \in 0..MaxSize :
          /\ Start(1, Request("status", t, size, 0, <<>>))
          /\ cl' = [cl EXCEPT !.pc = "status", !.target = t]
    /\ pre' = [pre EXCEPT ![1] = fs]
    /\ UNCHANGED locked

\* getReceived returns j.received || 0, or throws when the status is not ok
ResumeGotStatus ==
    /\ cl.pc = "status"
    /\ Release(1)
    /\ cl' = IF resp[1].status = 200
             THEN [cl EXCEPT !.pc = "resume", !.offset = resp[1].received]
             ELSE [cl EXCEPT !.pc = "off"]
    /\ UNCHANGED locked

\* fetch /upload/chunk with offset = the received value of the status answer
ResumeChunk ==
    /\ cl.pc = "resume"
    /\ \E size \in 0..MaxSize, n \in 0..MaxBody :
          /\ PartialLen(fs, cl.target) + n <= MaxFileLen
          /\ Start(1, Request("chunk", cl.target, size, cl.offset, Data(cl.offset, n)))
    /\ cl' = [cl EXCEPT !.pc = "chunk"]
    /\ pre' = [pre EXCEPT ![1] = fs]
    /\ UNCHANGED locked

\* the client reads the response to its chunk
ResumeGotChunk ==
    /\ cl.pc = "chunk"
    /\ Release(1)
    /\ cl' = [cl EXCEPT !.pc = "off", !.offset = 0]
    /\ UNCHANGED locked

\* the response to a request outside a round has been delivered
ResumeDone == cl.pc = "off" /\ Done(1)

ResumeNext ==
    \/ ResumeReqChunk
    \/ ResumeReqFinish
    \/ ResumeStatus
    \/ ResumeGotStatus
    \/ ResumeChunk
    \/ ResumeGotChunk
    \/ ResumeDone
    \/ Status(1)
    \/ Chunk(1)
    \/ Finish(1)

ResumeSpec == ResumeInit /\ [][ResumeNext]_vars

\* ------------------------------------------------------------------ claims

\* a path inside the staging directory TMP_DIR
InStaging(p) == Len(p) > Len(TMP_DIR) /\ Slice(p, 1, Len(TMP_DIR)) = TMP_DIR

\* length of the file at p in filesystem f, 0 if it does not exist
LenAt(f, p) == IF Exists(f, p) THEN Len(f[p]) ELSE 0

\* slot w holds the response to a well-formed request of kind op
Answered(w, op) == req[w].pc = "done" /\ req[w].op = op /\ ~Invalid(req[w])

IsPrefix(a, b) == Len(a) <= Len(b) /\ Slice(b, 1, Len(a)) = a

\* C1: Offset enforcement.  A well-formed chunk request whose offset differs
\* from the length the partial file had when it arrived (0 if absent) is
\* answered 409 with that length, and leaves every file as it was.
C1_OffsetEnforced ==
    (Answered(1, "chunk") /\ req[1].offset # LenAt(pre[1], req[1].tmp))
        => /\ resp[1] = Conflict(LenAt(pre[1], req[1].tmp))
           /\ fs = pre[1]

\* a chunk claiming offset 2 was refused while the partial file held one byte
C1_Witness ==
    /\ Answered(1, "chunk")
    /\ req[1].offset = 2
    /\ Exists(pre[1], req[1].tmp)
    /\ Len(pre[1][req[1].tmp]) = 1
    /\ resp[1].status = 409

\* C2: Resumability.  When uploadItem reports done, after any number of lost
\* chunk connections and restarts, finish has answered ok with the path of a
\* file whose content is exactly the client's file, no partial file is left,
\* and uploadItem never ends in failure for any other reason.
C2_Resumable ==
    /\ cl.pc # "failed"
    /\ cl.pc = "done"
          => /\ resp[1].status = 200
             /\ resp[1].path = FinalOf[TargetA]
             /\ Exists(fs, resp[1].path)
             /\ fs[resp[1].path] = ClientFile
             /\ DOMAIN fs = {resp[1].path}

\* an upload that lost MaxCuts connections and still completed
C2_Witness == cl.pc = "done" /\ cl.cuts = MaxCuts

\* C4: FinalFile immutability.  Under every interleaving of status, chunk and
\* finish requests, a file that exists at a path of the destination tree is
\* still there after every step, with the same content and length.
C4_FinalFileImmutable ==
    [][\A p \in DOMAIN fs :
          ~InStaging(p) => (p \in DOMAIN fs' /\ fs'[p] = fs[p])]_vars

\* C7: Size-exceeded detection.  A well-formed chunk request whose offset
\* matched the partial file's length leaves the partial file extended by the
\* bytes it read (all of the body, or a prefix when the connection was lost),
\* changes no other file, answers 400 exactly when the new length exceeds a
\* positive declared size, and answers the new length otherwise.
C7_SizeExceeded ==
    (Answered(1, "chunk") /\ req[1].offset = LenAt(pre[1], req[1].tmp))
        => LET tmp     == req[1].tmp
               before  == IF Exists(pre[1], tmp) THEN pre[1][tmp] ELSE <<>>
               written == LenAt(fs, tmp) - Len(before)
           IN  /\ Exists(fs, tmp)
               /\ written >= 0
               /\ fs[tmp] = before \o Data(req[1].offset, written)
               /\ \A p \in (DOMAIN fs \cup DOMAIN pre[1]) \ {tmp} :
                     Exists(fs, p) /\ Exists(pre[1], p) /\ fs[p] = pre[1][p]
               /\ resp[1].status = 400 <=> (req[1].size > 0 /\ Len(fs[tmp]) > req[1].size)
               /\ resp[1].status # 400 => resp[1] = Received(Len(fs[tmp]))

\* a chunk of two bytes for a declared size of one byte: 400, both bytes kept
C7_Witness ==
    /\ Answered(1, "chunk")
    /\ req[1].size = 1
    /\ req[1].offset = 0
    /\ resp[1].status = 400
    /\ LenAt(pre[1], req[1].tmp) = 0
    /\ LenAt(fs, req[1].tmp) = 2

\* ------------------------------------------------------------------ finalize claims

\* the name TargetA's upload gets when "a.t" is taken: " (i)" before ".t"
Disambiguated(i) == << <<"a", " ", "(">> \o IntToStr(i) \o <<")", ".", "t">> >>

\* smallest i >= 1 for which "a (i).t" does not exist in filesystem f
FirstFree(f) ==
    CHOOSE i \in 1..(Cardinality(DOMAIN f) + 1) :
        /\ ~Exists(f, Disambiguated(i))
        /\ \A h \in 1..(i - 1) : Exists(f, Disambiguated(h))

\* slot w holds the answer to a finish call that ran with no other request
\* in progress, on a disk that held the partial file when it arrived
FinishedAlone(w) ==
    /\ Answered(w, "finish")
    /\ req[w].peers = "none"
    /\ Exists(pre[w], req[w].tmp)

\* slot b's finish call arrived after slot a's finish call had returned, both
\* ran undisturbed, and the partial file was complete when a's call arrived
Retried(a, b) ==
    /\ FinishedAlone(a)
    /\ Answered(b, "finish") /\ req[b].peers = "none"
    /\ ~Exists(pre[b], req[b].tmp)
    /\ req[a].size = req[b].size /\ req[a].size > 0
    /\ Len(pre[a][req[a].tmp]) = req[a].size
    /\ ~req[a].faulted /\ ~req[b].faulted

\* C3: Idempotent finalize.  Two finish calls for a completed target, the
\* second after the first returned, both answer ok with the same path, and the
\* disk then holds what it held before plus one file of the full length in
\* place of the partial file, whether or not the preferred name was taken.
C3_IdempotentFinish ==
    \A a, b \in Workers :
        Retried(a, b)
            => /\ resp[a].status = 200 /\ resp[b].status = 200
               /\ resp[a].path = resp[b].path
               /\ DOMAIN fs = (DOMAIN pre[a] \ {req[a].tmp}) \cup {resp[a].path}
               /\ Len(fs[resp[a].path]) = req[a].size

\* C5: Collision safety.  A finish call that runs alone for a target whose
\* partial file exists and whose preferred name "a.t" is taken never changes
\* the file at "a.t"; when it answers ok the path is "a (i).t" for the smallest
\* i >= 1 unused when the call arrived and that file has the partial file's
\* content; and unless a rename hit an external lock it answers ok, the
\* partial file is gone and nothing else on disk changed.
C5_CollisionSafe ==
    \A w \in Workers :
        (FinishedAlone(w) /\ Exists(pre[w], FinalOf[TargetA]))
            => LET new == Disambiguated(FirstFree(pre[w]))
               IN  /\ Exists(fs, FinalOf[TargetA])
                   /\ fs[FinalOf[TargetA]] = pre[w][FinalOf[TargetA]]
                   /\ resp[w].status = 200
                         => /\ resp[w].path = new
                            /\ Exists(fs, new)
                            /\ fs[new] = pre[w][req[w].tmp]
                   /\ ~req[w].faulted
                         => /\ resp[w].status = 200
                            /\ fs = WriteFile(RemoveFile(pre[w], req[w].tmp), new,
                                              pre[w][req[w].tmp])

\* "a.t" and "a (1).t" were taken: the upload went to "a (2).t"
C5_Witness ==
    \E w \in Workers :
        /\ FinishedAlone(w)
        /\ Exists(pre[w], FinalOf[TargetA])
        /\ Exists(pre[w], Disambiguated(1))
        /\ ~req[w].faulted
        /\ resp[w].path = Disambiguated(2)
        /\ ~Exists(fs, req[w].tmp)

\* C8: Finalize never reports partial or corrupt state as success.  Whenever
\* a finish call with a positive declared size answers ok with a path, a file
\* exists at that path and its length is the declared size.
C8_OkMeansComplete ==
    \A w \in Workers :
        (Answered(w, "finish") /\ req[w].size > 0 /\ resp[w].status = 200
           /\ \A v \in Workers : ~Active(req[v]))
            => /\ Exists(fs, resp[w].path)
               /\ Len(fs[resp[w].path]) = req[w].size

\* C9: Concurrent finalize.  Two finish calls for the same completed target
\* that overlap, with nothing else running and no external lock hit, both
\* answer ok with the same path; the disk then holds what it held before plus
\* one file with the partial file's content in place of the partial file.
C9_ConcurrentFinish ==
    \A a, b \in Workers :
        ( /\ Answered(a, "finish") /\ Answered(b, "finish")
          /\ req[a].order = 1 /\ req[b].order = 2
          /\ req[a].peers = "twin" /\ req[b].peers = "twin"
          /\ ~req[a].faulted /\ ~req[b].faulted
          /\ req[a].size > 0
          /\ Exists(pre[a], req[a].tmp)
          /\ Len(pre[a][req[a].tmp]) = req[a].size )
            => /\ resp[a].status = 200 /\ resp[b].status = 200
               /\ resp[a].path = resp[b].path
               /\ fs = WriteFile(RemoveFile(pre[a], req[a].tmp), resp[a].path,
                                 pre[a][req[a].tmp])

\* ------------------------------------------------------------------ partial file claims

\* what one step may do to the partial file at path p: extend it, create it
\* empty on behalf of a chunk request for p's target, or remove it on behalf
\* of a finish call for p's target
AppendOnlyAt(p) ==
    /\ (Exists(fs, p) /\ Exists(fs', p)) => IsPrefix(fs[p], fs'[p])
    /\ (~Exists(fs, p) /\ Exists(fs', p))
          => \E w \in Workers : req[w].op = "chunk" /\ req[w].tmp = p /\ fs'[p] = <<>>
    /\ (Exists(fs, p) /\ ~Exists(fs', p))
          => \E w \in Workers : req[w].op = "finish" /\ req[w].tmp = p

\* C6: Append-only partial file.  Every step leaves every target's partial
\* file alone, extends it, creates it for that target's first chunk or removes
\* it for that target's finalize.
C6_AppendOnly ==
    [][\A t \in {TargetA, TargetP} : AppendOnlyAt(TmpOf[t])]_vars

\* ------------------------------------------------------------------ target independence

\* the handler in slot w takes the step
Stepped(w) ==
    \/ req'[w].pc # req[w].pc
    \/ req'[w].body # req[w].body
    \/ req'[w].i # req[w].i

\* the file at path p is the same in f and g: absent in both, or equal content
SameFile(f, g, p) ==
    /\ Exists(f, p) <=> Exists(g, p)
    /\ Exists(f, p) => f[p] = g[p]

\* the request in slot w is for another target than (t, size): it differs in
\* the file name, the relative path or the declared size
OtherTarget(w, t, size) ==
    /\ Active(req[w])
    /\ <<req[w].name, req[w].rel, req[w].size>> # <<t[1], t[2], size>>

OwnFiles(r, f) ==
    LET t == <<r.name, r.rel>>
    IN  {TmpOf[t], FinalOf[t]} \cup
        {Candidate(FinalOf[t], i) : i \in 1..(Cardinality(DOMAIN f) + 1)}

PathAlphabet == {"a", ".", "/", "\\", " ", "*"}

\* bound on the length of the enumerated names and relpaths
MaxNameLen == 2

MaxRelLen == 3

\* the strings over PathAlphabet of length n, and of length at most n
StringsOfLen(n) == [1..n -> PathAlphabet]

StringsUpTo(n) == UNION {StringsOfLen(k) : k \in 0..n}

\* n copies of the string s
Rep(s, n) == [k \in 1..(n * Len(s)) |-> s[((k - 1) % Len(s)) + 1]]

\* relpaths around the depth cap ("a/a/.../a") and the segment cap ("aaa...a")
LongRels ==
    {Rep(<<"a", "/">>, n) : n \in (MaxDepth - 1)..(MaxDepth + 1)}
    \cup {<<".", ".", "/">> \o Rep(<<"a">>, n) : n \in (MaxSegLen - 1)..(MaxSegLen + 1)}

PathNames == StringsUpTo(MaxNameLen)

PathRels == StringsUpTo(MaxRelLen) \cup LongRels

PathInit == Boot({EmptyFS}, NoClient)

PathReq ==
    /\ req[1].pc = "idle"
    /\ \E name \in PathNames, rel \in PathRels :
          Start(1, [Idle EXCEPT !.op = "status", !.name = name, !.rel = rel,
                                !.tmp = _tmp_path(name, rel),
                                !.final = _final_path(name, rel)])
    /\ UNCHANGED <<locked, pre, cl>>

PathNext ==
    \/ PathReq
    \/ Status(1)
    \/ Done(1)

PathSpec == PathInit /\ [][PathNext]_vars

\* ------------------------------------------------------------------ path claims

\* a path segment that names an entry of its directory: not empty, not "." or
\* "..", and without a separator
PlainSegment(seg) ==
    /\ seg # <<>>
    /\ seg # <<".">>
    /\ seg # <<".", ".">>
    /\ \A k \in 1..Len(seg) : seg[k] \notin {"/", "\\"}

\* p is strictly below the directory root: root, then directories within the
\* depth and length caps, then a file name
ConfinedBelow(p, root) ==
    /\ Len(p) > Len(root)
    /\ Slice(p, 1, Len(root)) = root
    /\ \A k \in (Len(root) + 1)..Len(p) : PlainSegment(p[k])
    /\ Len(p) - Len(root) - 1 <= 50
    /\ \A k \in (Len(root) + 1)..(Len(p) - 1) : Len(p[k]) <= 255

\* C11: Traversal safety.  For every name and relpath a client sends, the
\* partial path is strictly inside the staging root and the final path is
\* strictly inside the destination root: no segment is empty, ".", ".." or
\* holds a separator, and there are at most 50 directory segments of at most
\* 255 characters.
C11_TraversalSafe ==
    req[1].op # "none"
        => /\ ConfinedBelow(req[1].tmp, TMP_DIR)
           /\ ConfinedBelow(req[1].final, UPLOAD_ROOT)

\* "../aaa...a" (MaxSegLen letters) with the name "/.": the ".." is dropped,
\* the long segment kept, and the empty name replaced
C11_Witness ==
    /\ req[1].rel = <<".", ".", "/">> \o Rep(<<"a">>, MaxSegLen)
    /\ req[1].name = <<"/", ".">>
    /\ req[1].final = <<Rep(<<"a">>, MaxSegLen),
                        <<"u", "p", "l", "o", "a", "d", ".", "b", "i", "n">>>>

\* ------------------------------------------------------------------ ArgSpec: query parameters
\* Slot 1 serves requests whose query parameters are given as the client sent
\* them: absent, empty, or a text to be converted with int().  cl records what
\* was sent; one request is served on each of the disks of ArgFiles.

\* request.args has no entry under the key
Missing == <<"missing">>

IsDigits(text) ==
    /\ text # <<>>
    /\ \A k \in 1..Len(text) : \E d \in 1..10 : DigitChars[d] = text[k]

\* int(text) for a text of decimal digits
RECURSIVE DigitsToInt(_)
DigitsToInt(text) ==
    IF text = <<>> THEN 0
    ELSE LET last == text[Len(text)]
             d    == CHOOSE k \in 0..9 : DigitChars[k + 1] = last
         IN  10 * DigitsToInt(Slice(text, 1, Len(text) - 1)) + d

\* int() accepts the text: decimal digits with an optional sign
IsIntText(text) ==
    IF text # <<>> /\ Head(text) = "-" THEN IsDigits(Tail(text)) ELSE IsDigits(text)

\* request.args.get(key, "0") or 0: the text int() is applied to, or 0 itself
ArgOrZero(raw) == IF raw = Missing \/ raw = <<>> THEN <<"0">> ELSE raw

\* int(request.args.get(key, "0") or 0), for a text int() accepts
IntArg(raw) ==
    LET text == ArgOrZero(raw)
    IN  IF Head(text) = "-" THEN 0 - DigitsToInt(Tail(text)) ELSE DigitsToInt(text)

\* int() raises ValueError, which the handler does not catch
Malformed(raw) == ~IsIntText(ArgOrZero(raw))

\* request.args.get("name", "")
NameArg(raw) == IF raw = Missing THEN <<>> ELSE raw

\* what the client puts under a numeric key, and under name
ArgTexts == {Missing, <<>>, <<"x">>, <<"-", "1">>, <<"0">>, <<"1">>, <<"2">>}

ArgNames == {Missing, <<>>, NameA}

Sent(op, name, size, offset) ==
    [pc |-> "sent", op |-> op, name |-> name, size |-> size, offset |-> offset]

\* the numeric parameters a handler converts: finish has no offset
Converted(op, size, offset) == IF op = "chunk" THEN {size, offset} ELSE {size}

ArgFiles ==
    { EmptyFS,
      WriteFile(EmptyFS, TmpOf[TargetA], Data(0, 1)),
      WriteFile(EmptyFS, FinalOf[TargetA], Data(0, 2)) }

ArgInit == Boot(ArgFiles, NoClient)

\* a request arrives; the handler converts its parameters first
ArgReq ==
    /\ req[1].pc = "idle"
    /\ cl.pc = "off"
    /\ \E op \in {"status", "chunk", "finish"} :
       \E name \in ArgNames, size \in ArgTexts, offset \in ArgTexts :
          /\ op # "chunk" => offset = Missing
          /\ cl' = Sent(op, name, size, offset)
          /\ IF \E raw \in Converted(op, size, offset) : Malformed(raw)
             THEN /\ req' = [req EXCEPT ![1] =
                               [Idle EXCEPT !.pc = "done", !.op = op, !.name = NameArg(name)]]
                  /\ resp' = [resp EXCEPT ![1] = Abort(500, "ValueError")]
                  /\ UNCHANGED fs
             ELSE Start(1, Request(op, <<NameArg(name), <<>>>>, IntArg(size),
                                   IF op = "chunk" THEN IntArg(offset) ELSE 0,
                                   IF op = "chunk" THEN <<7>> ELSE <<>>))
    /\ pre' = [pre EXCEPT ![1] = fs]
    /\ UNCHANGED locked

ArgStep ==
    /\ StatusStep(1) \/ ChunkStep(1) \/ FinishStep(1)
    /\ UNCHANGED <<locked, pre, cl>>

ArgDone ==
    /\ Release(1)
    /\ cl' = [NoClient EXCEPT !.pc = "end"]
    /\ UNCHANGED locked

ArgNext ==
    \/ ArgReq
    \/ ArgStep
    \/ ArgDone

ArgSpec == ArgInit /\ [][ArgNext]_vars

\* ------------------------------------------------------------------ validation claims

\* the handler in slot 1 has answered the request the client sent
ArgAnswered == cl.pc = "sent" /\ req[1].pc = "done"

\* the text is a negative number
Negative(raw) == ~Malformed(raw) /\ IntArg(raw) < 0

StatMaxFiles == 3

StatTargets == {TargetA, TargetQ, TargetN, TargetP}

\* jsonify({"files": n})
Files(n) == Resp(200, n, FALSE, NoPath, "files")

StatInit == Boot({EmptyFS}, NoClient)

StatReqChunk ==
    /\ req[1].pc = "idle"
    /\ \E t \in StatTargets :
          /\ PartialLen(fs, t) = 0
          /\ Start(1, Request("chunk", t, 1, 0, Data(0, 1)))
    /\ pre' = [pre EXCEPT ![1] = fs]
    /\ UNCHANGED <<locked, cl>>

StatReqFinish ==
    /\ req[1].pc = "idle"
    /\ Cardinality(DOMAIN fs) <= StatMaxFiles
    /\ \E t \in StatTargets : Start(1, Request("finish", t, 1, 0, <<>>))
    /\ pre' = [pre EXCEPT ![1] = fs]
    /\ UNCHANGED <<locked, cl>>

\* GET /stats
StatsReq ==
    /\ req[1].pc = "idle"
    /\ req' = [req EXCEPT ![1] = [Idle EXCEPT !.op = "stats", !.pc = "done"]]
    /\ resp' = [resp EXCEPT ![1] = Files(_count_files_excluding_tmp(fs, UPLOAD_ROOT, TMP_DIR))]
    /\ pre' = [pre EXCEPT ![1] = fs]
    /\ UNCHANGED <<fs, locked, cl>>

StatNext ==
    \/ StatReqChunk
    \/ StatReqFinish
    \/ StatsReq
    \/ Chunk(1)
    \/ Finish(1)
    \/ Done(1)

StatSpec == StatInit /\ [][StatNext]_vars

\* ------------------------------------------------------------------ stats claims

\* C13: Stats equals the destination tree's cardinality.  The count /stats
\* answers is the number of files that exist under the destination root
\* outside the staging root.
C13_StatsCountsFinalFiles ==
    (req[1].pc = "done" /\ req[1].op = "stats")
        => resp[1].received = Cardinality({p \in DOMAIN fs : ~InStaging(p)})

\* C13 (amended): the count /stats answers is the number of files below the
\* destination root that have no directory named ".incoming" on their path
\* and whose name does not end in ".part".
C13_StatsAsCoded ==
    (req[1].pc = "done" /\ req[1].op = "stats")
        => resp[1].received =
              Cardinality({p \in DOMAIN fs :
                  /\ \A k \in 1..(Len(p) - 1) : p[k] # RelIncoming
                  /\ ~EndsWith(p[Len(p)], PartSuffix)})

\* /stats answers 1 while the disk holds the finalized a.t, the finalized
\* a.t.part and the finalized b/.incoming/a.t
C13_Witness ==
    /\ req[1].pc = "done" /\ req[1].op = "stats"
    /\ resp[1].received = 1
    /\ DOMAIN fs = {FinalOf[TargetA], FinalOf[TargetQ], FinalOf[TargetN]}

\* ------------------------------------------------------------------ RestartSpec: a client after size-exceeded
\* Slot 1 serves the chunk requests of one client for TargetA, one after the
\* other and with no finish call; the client remembers (cl.pc) that a chunk
\* was answered "received more bytes than declared size".

\* the sizes the client declares
RestartSizes == 1..MaxSize

RestartInit == Boot({EmptyFS}, NoClient)

RestartReqChunk ==
    /\ req[1].pc = "idle"
    /\ \E size \in RestartSizes, offset \in 0..MaxFileLen, n \in 1..MaxBody :
          /\ offset = PartialLen(fs, TargetA) => offset + n <= MaxFileLen + 1
          /\ Start(1, Request("chunk", TargetA, size, offset, Data(offset, n)))
    /\ pre' = [pre EXCEPT ![1] = fs]
    /\ UNCHANGED <<locked, cl>>

\* the client reads the response
RestartGotChunk ==
    /\ Release(1)
    /\ cl' = IF resp[1] = Abort(400, "received more bytes than declared size")
             THEN [cl EXCEPT !.pc = "exceeded", !.offset = req[1].size]
             ELSE cl
    /\ UNCHANGED locked

RestartNext ==
    \/ RestartReqChunk
    \/ RestartGotChunk
    \/ Chunk(1)

RestartSpec == RestartInit /\ [][RestartNext]_vars

\* ------------------------------------------------------------------ restart claims

\* C14: Restart after size-exceeded.  Once a chunk call for the target was
\* answered size-exceeded, a following chunk request for the same target and
\* declared size with offset 0 is not answered with a conflict: it is accepted
\* and appended.
C14_RestartFromZero ==
    ( /\ cl.pc = "exceeded"
      /\ Answered(1, "chunk")
      /\ req[1].size = cl.offset
      /\ req[1].offset = 0 )
        => /\ resp[1].status # 409
           /\ LenAt(fs, req[1].tmp) = LenAt(pre[1], req[1].tmp) + req[1].written

\* ------------------------------------------------------------------ status claims

\* C15: Status resolution.  A status request changes no file, and its answer
\* follows from the files present when it arrived: the partial file's length
\* without the completeness flag if the partial file exists; else, if the
\* final file exists, its size, flagged complete exactly when the declared
\* size is 0 or equals that size; else 0.
C15_StatusResolution ==
    (req[1].op = "status" /\ ~Invalid(req[1]))
        => /\ fs = pre[1]
           /\ req[1].pc = "done"
                 => LET tmp   == req[1].tmp
                        final == req[1].final
                    IN  /\ resp[1].status = 200
                        /\ resp[1].received =
                              IF Exists(fs, tmp) THEN Len(fs[tmp])
                              ELSE IF Exists(fs, final) THEN Len(fs[final])
                              ELSE 0
                        /\ resp[1].complete =
                              ( /\ ~Exists(fs, tmp)
                                /\ Exists(fs, final)
                                /\ (req[1].size = 0 \/ req[1].size = Len(fs[final])) )

\* a status request declaring size 0 was answered complete with the one byte
\* of the final file
C15_Witness ==
    /\ Answered(1, "status")
    /\ req[1].size = 0
    /\ ~Exists(fs, req[1].tmp)
    /\ Exists(fs, req[1].final)
    /\ resp[1].received = 1
    /\ resp[1].complete

\* ------------------------------------------------------------------ WriterSpec: concurrent chunk writers
\* The two request slots serve chunk requests for one target in any
\* interleaving of their filesystem calls, with no status or finish call.

WriterNext ==
    \E w \in Workers :
        \/ ReqChunk(w)
        \/ Chunk(w)
        \/ Drop(w)
        \/ Done(w)

WriterSpec == Init /\ [][WriterNext]_vars

\* ------------------------------------------------------------------ chunk writer claims

\* C16: Unserialised chunk writers.  A chunk request that no other request
\* overlapped and that is answered 200 reports, at the moment it answers, the
\* length of the partial file.  (The witness is the other half of the claim:
\* two overlapping chunk requests with one offset that both appended.)
C16_ReceivedIsLength ==
    [][\A w \in Workers :
          ( /\ req[w].op = "chunk" /\ req[w].pc # "done" /\ req'[w].pc = "done"
            /\ req'[w].peers = "none"
            /\ resp'[w].status = 200 )
             => /\ Exists(fs', req[w].tmp)
                /\ resp'[w].received = Len(fs'[req[w].tmp])]_vars

\* two chunk requests for offset 0 overlapped, both passed the offset check
\* and appended their byte: each is told received = 1, the file holds 2 bytes
C16_Witness ==
    /\ \A w \in Workers :
          /\ Answered(w, "chunk")
          /\ req[w].offset = 0
          /\ req[w].peers = "other"
          /\ resp[w] = Received(1)
    /\ fs = WriteFile(EmptyFS, TmpOf[TargetA], <<1, 1>>)

\* ------------------------------------------------------------------ finish error claims

\* C17: Nothing to finalize.  A finish call that arrives when neither the
\* partial file nor the preferred final file of its target exists is answered
\* 404 and leaves every file as it was.
C17_NothingToFinalize ==
    ( /\ Answered(1, "finish")
      /\ ~Exists(pre[1], req[1].tmp)
      /\ ~Exists(pre[1], FinalOf[<<req[1].name, req[1].rel>>]) )
        => /\ resp[1].status = 404
           /\ fs = pre[1]

\* a finish call for a.t was answered 404 on a disk that holds other files
C17_Witness ==
    /\ Answered(1, "finish")
    /\ req[1].name = NameA /\ req[1].rel = <<>>
    /\ resp[1] = Abort(404, "no partial upload found")
    /\ fs = pre[1]
    /\ fs # EmptyFS

\* the positions of the os.replace loop, of the shutil.move fallback, and of
\* the except branch that follows a failed fallback
InFallback(r) == r.pc \in {"m_rename", "m_copy", "m_unlink"}

InExcept(r) == r.pc \in {"y_final_exists", "y_final_stat", "y_unlink"}

\* the final file is present with the declared size (any size if none declared)
FinalAsDeclared(f, r) ==
    Exists(f, r.final) /\ (r.size = 0 \/ Len(f[r.final]) = r.size)

\* C18: Bounded finalize.  Every finish call ends with a response.  The move
\* makes at most Attempts (10) os.replace attempts, enters the copy-and-delete
\* fallback only after the last of them failed and never goes back to an
\* earlier step from it; the search for a disambiguated name settles on an
\* unused index below which every index is in use; and a call answers 500
\* only after all attempts and the fallback failed while the final file is
\* not present with the declared size.
C18_BoundedFinalize ==
    /\ \A w \in Workers :
          (req[w].op = "finish" /\ Active(req[w])) ~> (req[w].pc = "done")
    /\ [](\A w \in Workers :
             /\ req[w].pc = "m_replace" => req[w].i < 10
             /\ (InFallback(req[w]) \/ InExcept(req[w])) => req[w].i = 10)
    /\ [][\A w \in Workers :
             LET r    == req[w]
                 pref == FinalOf[<<r.name, r.rel>>]
             IN  /\ InFallback(r) => req'[w].pc # "m_replace"
                 /\ r.pc \in {"m_copy", "m_unlink"} => req'[w].pc # "m_rename"
                 /\ (r.pc = "u_cand" /\ req'[w].pc # "u_cand")
                       => /\ req'[w].final = Candidate(pref, r.i)
                          /\ ~Exists(fs, req'[w].final)
                          /\ \A h \in 1..(r.i - 1) : Exists(fs, Candidate(pref, h))
                 /\ (r.op = "finish" /\ Active(r) /\ req'[w].pc = "done"
                       /\ resp'[w].status = 500)
                       => /\ InExcept(r)
                          /\ ~FinalAsDeclared(fs, r)]_vars

\* a finish call gave up with 500 after the lock outlasted every attempt; the
\* partial file is still in place
C18_Witness ==
    \E w \in Workers :
        /\ Answered(w, "finish")
        /\ resp[w] = Abort(500, "finalize failed")
        /\ Exists(fs, req[w].tmp)
        /\ fs = pre[w]

\* C19: End-state over exceptions.  When the move raised an error other than
\* the partial having vanished, a finish call that finds the final file with
\* the declared size answers ok and no partial file remains; one that finds
\* the final file absent answers 500 and leaves every file as it was.
C19_EndStateOverExceptions ==
    [][\A w \in Workers :
          LET r == req[w]
          IN  (InExcept(r) /\ req'[w].pc = "done")
                 => /\ (Exists(fs, r.final) /\ Len(fs[r.final]) = r.size)
                          => /\ resp'[w].status = 200
                             /\ ~Exists(fs', r.tmp)
                    /\ ~Exists(fs, r.final)
                          => /\ resp'[w].status = 500
                             /\ fs' = fs]_vars

\* slot 1 holds the answer to the chunk the client sent at the received value
\* of the status answer it had just read
Resumed == cl.pc = "chunk" /\ Answered(1, "chunk")

\* C20: Resume offset agrees with the chunk check.  A chunk request sent with
\* offset equal to the received value of the immediately preceding status
\* answer for the same target is never answered 409.
C20_ResumeOffsetAgrees == Resumed => resp[1].status # 409

\* C20 as the code has it: such a chunk request is answered 409 exactly when
\* the target had no partial file and the status answer was the non-zero
\* length (or declared size) of the target's final file; after a status
\* answer taken from the partial file, or of 0, it never is.
C20_ResumeOffsetAsCoded ==
    Resumed =>
        (resp[1].status = 409
            <=> /\ ~Exists(pre[1], req[1].tmp)
                /\ Exists(pre[1], req[1].final)
                /\ req[1].offset > 0)

\* a resumed chunk was appended to a partial file that already had bytes
C20_Witness ==
    /\ Resumed
    /\ req[1].offset > 0
    /\ resp[1].status = 200
    /\ LenAt(pre[1], req[1].tmp) = req[1].offset
    /\ LenAt(fs, req[1].tmp) > req[1].offset

\* C21: Staging and destination namespaces are disjoint.  The final path of
\* every well-formed request lies outside the staging directory and is no
\* target's partial path, and no step of a finish call brings a file into
\* being inside the staging directory.
C21_NamespacesDisjoint ==
    /\ [](\A w \in Workers :
             (req[w].pc # "idle" /\ ~Invalid(req[w]))
                => /\ ~InStaging(req[w].final)
                   /\ \A t \in AllTargets : req[w].final # TmpOf[t])
    /\ [][\A w \in Workers :
             (req[w].op = "finish" /\ Stepped(w))
                => \A p \in DOMAIN fs' \ DOMAIN fs : ~InStaging(p)]_vars

====
